---- MODULE Spec2Model ----
(***************************************************************************)
(* The `Swap` late lint pass of clippy (clippy_lints/src/swap.rs):         *)
(* check_block runs three detectors over the statements of one block,      *)
(*   check_manual_swap      windows(3)        MANUAL_SWAP                  *)
(*   check_suspicious_swap  array_windows 2   ALMOST_SWAPPED               *)
(*   check_xor_swap         windows(3)        MANUAL_SWAP                  *)
(* and generate_swap_warning renders the MANUAL_SWAP diagnostics.          *)
(*                                                                         *)
(* One step of the model is one window evaluated by one detector (or the   *)
(* entry/exit of a detector's loop).  The answers of the collaborators     *)
(* (in_constant, std_or_core, expr_ty, Span::eq_ctxt, Sugg::hir_opt) are   *)
(* inputs: they are drawn when the code asks and remembered afterwards.    *)
(***************************************************************************)
EXTENDS Integers, Sequences, FiniteSets, TLC

VARIABLES
    block,      \* block.stmts: the statements of the block being checked
    in_const,   \* the answer of in_constant(cx, block.hir_id)
    pc,         \* the detector check_block is in: manual, suspicious, xor, done
    w,          \* start (1-based) of the next window of the running detector
    findings,   \* the diagnostics emitted so far, in emission order
    evaluated,  \* <<detector, window start>> of every window evaluated so far
    stdOrCore,  \* the answer of std_or_core(cx): unasked, Some, None
    tyLog,      \* <<expr, type tag>>: the answers of expr_ty(..).peel_refs()
    ctxtLog,    \* <<window, answer>>: first.span.eq_ctxt(second.span)
    hirLog      \* <<window, answer>>: the Sugg::hir_opt calls of a window

vars == <<block, in_const, pc, w, findings, evaluated, stdOrCore, tyLog, ctxtLog, hirLog>>

-----------------------------------------------------------------------------
(* Bounds of the model *)

\* longest block of the general specification
MaxLen == 3

\* longest block of the back-to-back specification
MaxPairLen == 4

(* Window widths of the three loops *)
ManualWidth == 3
SuspiciousWidth == 2
XorWidth == 3

-----------------------------------------------------------------------------
(* rustc_hir::Expr, as far as the pass looks at it: a root (a path of one  *)
(* or more segments, a call, a literal) under a stack of Index and Field   *)
(* projections, innermost first.                                           *)

NoExpr == [kind |-> "None", segs |-> <<>>, proj |-> <<>>]
Path(n) == [kind |-> "Path", segs |-> <<n>>, proj |-> <<>>]
QPath(q, n) == [kind |-> "Path", segs |-> <<q, n>>, proj |-> <<>>]
Call(f) == [kind |-> "Call", segs |-> <<f>>, proj |-> <<>>]
Index(e, k) == [e EXCEPT !.proj = Append(@, [pk |-> "Index", key |-> k])]
Field(e, k) == [e EXCEPT !.proj = Append(@, [pk |-> "Field", key |-> k])]

\* ExprKind of the outermost node
TopKind(e) == IF e.proj = <<>> THEN e.kind ELSE e.proj[Len(e.proj)].pk
\* the indexed (or accessed) expression and the index of an Index/Field node
Base(e) == [e EXCEPT !.proj = SubSeq(@, 1, Len(@) - 1)]
IdxOf(e) == e.proj[Len(e.proj)].key
Root(e) == [e EXCEPT !.proj = <<>>]

\* ExprKind::Path(QPath::Resolved(None, p)) with p.segments.len() == 1
IsBarePath(e) == e.kind = "Path" /\ e.proj = <<>> /\ Len(e.segs) = 1

(* rustc_hir::Stmt *)
Local(pat, ident, init) ==
    [kind |-> "Local", pat |-> pat, ident |-> ident, hasInit |-> TRUE,
     ek |-> "none", op |-> "none", lhs |-> NoExpr, rhs |-> init]
LocalNoInit(ident) ==
    [kind |-> "Local", pat |-> "Binding", ident |-> ident, hasInit |-> FALSE,
     ek |-> "none", op |-> "none", lhs |-> NoExpr, rhs |-> NoExpr]
Assign(l, r) ==
    [kind |-> "Semi", pat |-> "none", ident |-> "", hasInit |-> FALSE,
     ek |-> "Assign", op |-> "none", lhs |-> l, rhs |-> r]
AssignOp(o, l, r) ==
    [kind |-> "Semi", pat |-> "none", ident |-> "", hasInit |-> FALSE,
     ek |-> "AssignOp", op |-> o, lhs |-> l, rhs |-> r]
ExprStmt(e) ==
    [kind |-> "Semi", pat |-> "none", ident |-> "", hasInit |-> FALSE,
     ek |-> "Other", op |-> "none", lhs |-> NoExpr, rhs |-> e]

-----------------------------------------------------------------------------
(* Collaborators of clippy_utils *)

\* eq_expr_value = SpanlessEq::new(cx).deny_side_effects().eq_expr:
\* the same tree, node by node, and no call in it
eq_expr_value(l, r) ==
    /\ l.kind = r.kind
    /\ l.kind \in {"Path", "Lit"}
    /\ l.segs = r.segs
    /\ Len(l.proj) = Len(r.proj)
    /\ \A k \in 1..Len(l.proj) :
          l.proj[k].pk = r.proj[k].pk /\ l.proj[k].key = r.proj[k].key

\* the projections of two places with the same root part ways at two
\* different fields before any index that may coincide
RECURSIVE ProjDisjoint(_, _, _)
ProjDisjoint(p1, p2, k) ==
    IF k > Len(p1) \/ k > Len(p2) THEN FALSE
    ELSE IF p1[k].pk = "Field" /\ p2[k].pk = "Field"
         THEN IF p1[k].key # p2[k].key THEN TRUE ELSE ProjDisjoint(p1, p2, k + 1)
    ELSE IF p1[k].pk = "Index" /\ p2[k].pk = "Index"
         THEN IF p1[k].key # p2[k].key THEN FALSE ELSE ProjDisjoint(p1, p2, k + 1)
    ELSE FALSE

\* can_mut_borrow_both: the two places are provably disjoint storage
can_mut_borrow_both(e1, e2) ==
    /\ e1.kind = "Path" /\ e2.kind = "Path"
    /\ IF ~eq_expr_value(Root(e1), Root(e2)) THEN TRUE
       ELSE ProjDisjoint(e1.proj, e2.proj, 1)

\* Sugg::hir_with_applicability leaves the applicability it is handed as it is
Sugg_hir_with_applicability(applicability) == applicability

TypeTags == {"Slice", "Array", "Vec", "VecDeque", "Other"}

\* what std_or_core(cx) may answer now
StdChoices == IF stdOrCore = "unasked" THEN {"Some", "None"} ELSE {stdOrCore}

\* what expr_ty(e).peel_refs() may answer now
TyChoices(e) ==
    IF \E p \in tyLog : p[1] = e THEN {p[2] : p \in {q \in tyLog : q[1] = e}}
    ELSE TypeTags


-----------------------------------------------------------------------------
(* generate_swap_warning(cx, e1, e2, span, is_xor_based), given the answers *)
(* ty of expr_ty and soc of std_or_core: what it emits and what it asked.   *)

\* a diagnostic: the lint, the suggestion (mem_swap: `{sugg}::mem::swap(&mut e1,
\* &mut e2)`; slice_swap: `Base(e1).swap(IdxOf(e1), IdxOf(e2))`), its
\* applicability, whether the `mem::replace` note is attached, and the
\* statements lo..hi its span covers; `by` is filled in by the detector's step
Finding(lint, form, app, note, xor, lo, hi, e1, e2) ==
    [lint |-> lint, form |-> form, app |-> app, note |-> note, xor |-> xor,
     lo |-> lo, hi |-> hi, e1 |-> e1, e2 |-> e2, by |-> ""]

\* a slice, an array, a Vec or a VecDeque
swappable_ty_any(ty) == TRUE
swappable_ty(ty) == ty \in {"Slice", "Array", "Vec", "VecDeque"}

\* `if !is_xor_based { diag.note(..mem::replace..) }`
replace_note_always(is_xor_based) == TRUE
replace_note(is_xor_based) == ~is_xor_based

slice_swap_lint(e1, e2, lo, hi, is_xor_based, applicability) ==
    Finding("MANUAL_SWAP", "slice_swap", Sugg_hir_with_applicability(applicability),
            FALSE, is_xor_based, lo, hi, e1, e2)

mem_swap_lint(e1, e2, lo, hi, is_xor_based, applicability) ==
    Finding("MANUAL_SWAP", "mem_swap", Sugg_hir_with_applicability(applicability),
            replace_note(is_xor_based), is_xor_based, lo, hi, e1, e2)

\* generate_swap_warning with the index branch asking std_or_core as well
generate_swap_warning_std_for_index(e1, e2, lo, hi, is_xor_based, ty, soc) ==
    LET applicability == "MachineApplicable" IN
    IF ~can_mut_borrow_both(e1, e2)
    THEN IF TopKind(e1) = "Index" /\ TopKind(e2) = "Index"
            /\ eq_expr_value(Base(e1), Base(e2))
         THEN [emit |-> IF swappable_ty(ty) /\ soc = "Some"
                        THEN <<slice_swap_lint(e1, e2, lo, hi, is_xor_based, applicability)>>
                        ELSE <<>>,
               asked |-> IF swappable_ty(ty) THEN {"ty", "soc"} ELSE {"ty"}]
         ELSE [emit |-> <<>>, asked |-> {}]
    ELSE [emit |-> IF soc = "Some"
                   THEN <<mem_swap_lint(e1, e2, lo, hi, is_xor_based, applicability)>>
                   ELSE <<>>,
          asked |-> {"soc"}]

\* generate_swap_warning without the `return` that ends the index branch
generate_swap_warning_no_return(e1, e2, lo, hi, is_xor_based, ty, soc) ==
    LET applicability == "MachineApplicable"
        isIndex == /\ ~can_mut_borrow_both(e1, e2)
                   /\ TopKind(e1) = "Index" /\ TopKind(e2) = "Index"
                   /\ eq_expr_value(Base(e1), Base(e2))
    IN  [emit |-> (IF isIndex /\ swappable_ty(ty)
                   THEN <<slice_swap_lint(e1, e2, lo, hi, is_xor_based, applicability)>>
                   ELSE <<>>)
                  \o (IF soc = "Some"
                      THEN <<mem_swap_lint(e1, e2, lo, hi, is_xor_based, applicability)>>
                      ELSE <<>>),
         asked |-> (IF isIndex THEN {"ty"} ELSE {}) \cup {"soc"}]

generate_swap_warning(e1, e2, lo, hi, is_xor_based, ty, soc) ==
    LET applicability == "MachineApplicable" IN
    IF ~can_mut_borrow_both(e1, e2)
    THEN IF TopKind(e1) = "Index" /\ TopKind(e2) = "Index"
            /\ eq_expr_value(Base(e1), Base(e2))
         THEN [emit |-> IF swappable_ty(ty)
                        THEN <<slice_swap_lint(e1, e2, lo, hi, is_xor_based, applicability)>>
                        ELSE <<>>,
               asked |-> {"ty"}]
         ELSE [emit |-> <<>>, asked |-> {}]
    ELSE [emit |-> IF soc = "Some"
                   THEN <<mem_swap_lint(e1, e2, lo, hi, is_xor_based, applicability)>>
                   ELSE <<>>,
          asked |-> {"soc"}]

NoOutcome == [emit |-> <<>>, asked |-> {}]

-----------------------------------------------------------------------------
(* check_manual_swap: one window of block.stmts.windows(3) *)

\* manual_swap_matches without `ident.name == rhs2.segments[0].ident.name`
manual_swap_matches_any_name(s0, s1, s2) ==
    /\ s0.kind = "Local" /\ s0.hasInit /\ s0.pat = "Binding"
    /\ s1.kind = "Semi" /\ s1.ek = "Assign"
    /\ s2.kind = "Semi" /\ s2.ek = "Assign"
    /\ IsBarePath(s2.rhs)
    /\ eq_expr_value(s0.rhs, s1.lhs)
    /\ eq_expr_value(s1.rhs, s2.lhs)

manual_swap_matches(s0, s1, s2) ==
    /\ s0.kind = "Local" /\ s0.hasInit /\ s0.pat = "Binding"
    /\ s1.kind = "Semi" /\ s1.ek = "Assign"
    /\ s2.kind = "Semi" /\ s2.ek = "Assign"
    /\ IsBarePath(s2.rhs)
    /\ s0.ident = s2.rhs.segs[1]
    /\ eq_expr_value(s0.rhs, s1.lhs)
    /\ eq_expr_value(s1.rhs, s2.lhs)

check_manual_swap_window(i, ty, soc) ==
    IF manual_swap_matches(block[i], block[i + 1], block[i + 2])
    THEN generate_swap_warning(block[i + 1].lhs, block[i + 2].lhs, i, i + 2, FALSE, ty, soc)
    ELSE NoOutcome

-----------------------------------------------------------------------------
(* check_suspicious_swap: one window of block.stmts.array_windows() *)

\* the outcomes of the Sugg::hir_opt calls of one window: both Some, the one
\* for lhs0 None, the one for rhs0 None
HirChoices == {"both", "lhs_none", "rhs_none"}

NoParse == [ok |-> FALSE, isIdent |-> FALSE, ident |-> "", lhs |-> NoExpr, rhs |-> NoExpr]

parse(stmt) ==
    IF stmt.kind = "Semi"
    THEN IF stmt.ek = "Assign"
         THEN [ok |-> TRUE, isIdent |-> FALSE, ident |-> "", lhs |-> stmt.lhs, rhs |-> stmt.rhs]
         ELSE NoParse
    ELSE IF stmt.kind = "Local" /\ stmt.hasInit /\ stmt.pat \in {"Binding", "BindingSub"}
         THEN [ok |-> TRUE, isIdent |-> TRUE, ident |-> stmt.ident, lhs |-> NoExpr, rhs |-> stmt.rhs]
         ELSE NoParse

is_same(lhs, rhs) ==
    IF lhs.isIdent
    THEN IsBarePath(rhs) /\ rhs.segs[1] = lhs.ident
    ELSE eq_expr_value(lhs.lhs, rhs)

\* suspicious_operands_match without `is_same(cx, lhs1, rhs0)`
suspicious_operands_match_one_way(first, second) ==
    /\ parse(first).ok
    /\ parse(second).ok
    /\ is_same(parse(first), parse(second).rhs)

\* the conditions on the two statements alone: parse, parse, is_same, is_same
\* (eq_ctxt, which the code asks between them, is the step's input `same`: its
\* answer is recorded for the windows it decides, those whose operands match)
suspicious_operands_match(first, second) ==
    /\ parse(first).ok
    /\ parse(second).ok
    /\ is_same(parse(first), parse(second).rhs)
    /\ is_same(parse(second), parse(first).rhs)

\* lhs_sugg and rhs_sugg are both Some
suspicious_suggs(p0, hir) ==
    /\ (p0.isIdent \/ hir # "lhs_none")
    /\ hir # "rhs_none"

\* check_suspicious_swap with Applicability::MachineApplicable
check_suspicious_swap_window_machine(i, same, hir, soc) ==
    LET p0 == parse(block[i])
        lhs0 == IF p0.isIdent THEN Path(p0.ident) ELSE p0.lhs
    IN  IF ~suspicious_operands_match(block[i], block[i + 1])
        THEN [emit |-> <<>>, asked |-> {}, ret |-> FALSE]
        ELSE IF ~same
        THEN [emit |-> <<>>, asked |-> {"ctxt"}, ret |-> FALSE]
        ELSE IF ~suspicious_suggs(p0, hir)
        THEN [emit |-> <<>>, asked |-> {"ctxt", "hir"}, ret |-> FALSE]
        ELSE IF soc # "Some"
        THEN [emit |-> <<>>, asked |-> {"ctxt", "hir", "soc"}, ret |-> TRUE]
        ELSE [emit |-> <<Finding("ALMOST_SWAPPED", "mem_swap", "MachineApplicable",
                                 TRUE, FALSE, i, i + 1, lhs0, p0.rhs)>>,
              asked |-> {"ctxt", "hir", "soc"}, ret |-> FALSE]

------------------------------------------------------------------------\* check_suspicious_swap returning after its first diagnostic
check_suspicious_swap_window_return(i, same, hir, soc) ==
    LET p0 == parse(block[i])
        lhs0 == IF p0.isIdent THEN Path(p0.ident) ELSE p0.lhs
    IN  IF ~suspicious_operands_match(block[i], block[i + 1])
        THEN [emit |-> <<>>, asked |-> {}, ret |-> FALSE]
        ELSE IF ~same
        THEN [emit |-> <<>>, asked |-> {"ctxt"}, ret |-> FALSE]
        ELSE IF ~suspicious_suggs(p0, hir)
        THEN [emit |-> <<>>, asked |-> {"ctxt", "hir"}, ret |-> FALSE]
        ELSE IF soc # "Some"
        THEN [emit |-> <<>>, asked |-> {"ctxt", "hir", "soc"}, ret |-> TRUE]
        ELSE [emit |-> <<Finding("ALMOST_SWAPPED", "mem_swap", "MaybeIncorrect",
                                 TRUE, FALSE, i, i + 1, lhs0, p0.rhs)>>,
              asked |-> {"ctxt", "hir", "soc"}, ret |-> TRUE]

check_suspicious_swap_window(i, same, hir, soc) ==
    LET p0 == parse(block[i])
        lhs0 == IF p0.isIdent THEN Path(p0.ident) ELSE p0.lhs
    IN  IF ~suspicious_operands_match(block[i], block[i + 1])
        THEN [emit |-> <<>>, asked |-> {}, ret |-> FALSE]
        ELSE IF ~same
        THEN [emit |-> <<>>, asked |-> {"ctxt"}, ret |-> FALSE]
        ELSE IF ~suspicious_suggs(p0, hir)
        THEN [emit |-> <<>>, asked |-> {"ctxt", "hir"}, ret |-> FALSE]
        ELSE IF soc # "Some"
        THEN [emit |-> <<>>, asked |-> {"ctxt", "hir", "soc"}, ret |-> TRUE]
        ELSE [emit |-> <<Finding("ALMOST_SWAPPED", "mem_swap", "MaybeIncorrect",
                                 TRUE, FALSE, i, i + 1, lhs0, p0.rhs)>>,
              asked |-> {"ctxt", "hir", "soc"}, ret |-> FALSE]

-----------------------------------------------------------------------------
(* check_xor_swap: one window of block.stmts.windows(3) *)

extract_sides_of_xor_assign(stmt) ==
    IF stmt.kind = "Semi" /\ stmt.ek = "AssignOp" /\ stmt.op = "BitXor"
    THEN [ok |-> TRUE, lhs |-> stmt.lhs, rhs |-> stmt.rhs]
    ELSE [ok |-> FALSE, lhs |-> NoExpr, rhs |-> NoExpr]

xor_swap_matches(s0, s1, s2) ==
    LET x0 == extract_sides_of_xor_assign(s0)
        x1 == extract_sides_of_xor_assign(s1)
        x2 == extract_sides_of_xor_assign(s2)
    IN  /\ x0.ok /\ x1.ok /\ x2.ok
        /\ eq_expr_value(x0.lhs, x1.rhs)
        /\ eq_expr_value(x2.lhs, x1.rhs)
        /\ eq_expr_value(x1.lhs, x0.rhs)
        /\ eq_expr_value(x1.lhs, x2.rhs)

\* check_xor_swap reporting lhs0 and lhs2
check_xor_swap_window_lhs2(i, ty, soc) ==
    IF xor_swap_matches(block[i], block[i + 1], block[i + 2])
    THEN generate_swap_warning(block[i].lhs, block[i + 2].lhs, i, i + 2, TRUE, ty, soc)
    ELSE NoOutcome

check_xor_swap_window(i, ty, soc) ==
    IF xor_swap_matches(block[i], block[i + 1], block[i + 2])
    THEN generate_swap_warning(block[i].lhs, block[i].rhs, i, i + 2, TRUE, ty, soc)
    ELSE NoOutcome

-----------------------------------------------------------------------------
(* The steps of check_block *)

\* the expression whose type generate_swap_warning asks for
TyKeyManual(i) == Base(block[i + 1].lhs)
TyKeyXor(i) == Base(block[i].lhs)

\* the diagnostics of one step, marked with the detector that emitted them
Emitted(emit, detector) == [k \in 1..Len(emit) |-> [emit[k] EXCEPT !.by = detector]]

\* the bookkeeping of a generate_swap_warning call with outcome r
Record(r, detector, key, ty, soc) ==
    /\ findings' = findings \o Emitted(r.emit, detector)
    /\ tyLog' = IF "ty" \in r.asked THEN tyLog \cup {<<key, ty>>} ELSE tyLog
    /\ stdOrCore' = IF "soc" \in r.asked THEN soc ELSE stdOrCore

\* the answers a step draws: those of the queries it can reach
TyDrawn(asked, key) == IF "ty" \in asked THEN TyChoices(key) ELSE {"Other"}
StdDrawn(asked) == IF "soc" \in asked THEN StdChoices ELSE {"None"}
CtxtDrawn(asked) == IF "ctxt" \in asked THEN BOOLEAN ELSE {TRUE}
HirDrawn(asked, i) ==
    IF "hir" \in asked
    THEN IF parse(block[i]).isIdent THEN HirChoices \ {"lhs_none"} ELSE HirChoices
    ELSE {"both"}

\* check_manual_swap returns at once in a constant context
ManualInConstant ==
    /\ pc = "manual" /\ in_const
    /\ pc' = "suspicious" /\ w' = 1
    /\ UNCHANGED <<block, in_const, findings, evaluated, stdOrCore, tyLog, ctxtLog, hirLog>>

ManualWindow ==
    /\ pc = "manual" /\ ~in_const
    /\ w + ManualWidth - 1 <= Len(block)
    /\ LET reach == check_manual_swap_window(w, "Vec", "Some").asked IN
       \E ty \in TyDrawn(reach, TyKeyManual(w)), soc \in StdDrawn(reach) :
          Record(check_manual_swap_window(w, ty, soc), "manual", TyKeyManual(w), ty, soc)
    /\ evaluated' = evaluated \cup {<<"manual", w>>}
    /\ w' = w + 1
    /\ UNCHANGED <<block, in_const, pc, ctxtLog, hirLog>>

ManualDone ==
    /\ pc = "manual" /\ ~in_const
    /\ w + ManualWidth - 1 > Len(block)
    /\ pc' = "suspicious" /\ w' = 1
    /\ UNCHANGED <<block, in_const, findings, evaluated, stdOrCore, tyLog, ctxtLog, hirLog>>

SuspiciousWindow ==
    /\ pc = "suspicious"
    /\ w + SuspiciousWidth - 1 <= Len(block)
    /\ LET reach == check_suspicious_swap_window(w, TRUE, "both", "Some").asked IN
       \E same \in CtxtDrawn(reach), hir \in HirDrawn(reach, w), soc \in StdDrawn(reach) :
          LET r == check_suspicious_swap_window(w, same, hir, soc) IN
          /\ findings' = findings \o Emitted(r.emit, "suspicious")
          /\ ctxtLog' = IF "ctxt" \in r.asked THEN ctxtLog \cup {<<w, same>>} ELSE ctxtLog
          /\ hirLog' = IF "hir" \in r.asked THEN hirLog \cup {<<w, hir>>} ELSE hirLog
          /\ stdOrCore' = IF "soc" \in r.asked THEN soc ELSE stdOrCore
          /\ pc' = IF r.ret THEN "xor" ELSE pc
          /\ w' = IF r.ret THEN 1 ELSE w + 1
    /\ evaluated' = evaluated \cup {<<"suspicious", w>>}
    /\ UNCHANGED <<block, in_const, tyLog>>

SuspiciousDone ==
    /\ pc = "suspicious"
    /\ w + SuspiciousWidth - 1 > Len(block)
    /\ pc' = "xor" /\ w' = 1
    /\ UNCHANGED <<block, in_const, findings, evaluated, stdOrCore, tyLog, ctxtLog, hirLog>>

XorWindow ==
    /\ pc = "xor"
    /\ w + XorWidth - 1 <= Len(block)
    /\ LET reach == check_xor_swap_window(w, "Vec", "Some").asked IN
       \E ty \in TyDrawn(reach, TyKeyXor(w)), soc \in StdDrawn(reach) :
          Record(check_xor_swap_window(w, ty, soc), "xor", TyKeyXor(w), ty, soc)
    /\ evaluated' = evaluated \cup {<<"xor", w>>}
    /\ w' = w + 1
    /\ UNCHANGED <<block, in_const, pc, ctxtLog, hirLog>>

XorDone ==
    /\ pc = "xor"
    /\ w + XorWidth - 1 > Len(block)
    /\ pc' = "done" /\ w' = 1
    /\ UNCHANGED <<block, in_const, findings, evaluated, stdOrCore, tyLog, ctxtLog, hirLog>>

Next ==
    \/ ManualInConstant
    \/ ManualWindow
    \/ ManualDone
    \/ SuspiciousWindow
    \/ SuspiciousDone
    \/ XorWindow
    \/ XorDone

-----------------------------------------------------------------------------
(* Blocks *)

A == Path("a")
B == Path("b")
C == Path("c")
D == Path("d")
T == Path("t")
VI == Index(Path("v"), "i")
VJ == Index(Path("v"), "j")
UI == Index(Path("u"), "i")
AX == Field(A, "x")
AY == Field(A, "y")

\* swaps of two locals through a temporary, and their near misses
TempStmts ==
    { Local("Binding", "t", A), Assign(A, B), Assign(B, T), Assign(B, A),
      LocalNoInit("t"), Local("Tuple", "t", A), Local("BindingSub", "t", A),
      Assign(B, QPath("m", "t")), Assign(A, A), Assign(A, T) }

\* swaps of two elements through a temporary: one container, two containers,
\* two rows of a nested container
IndexStmts ==
    { Local("Binding", "t", VI), Assign(VI, VJ), Assign(VJ, T), Assign(VJ, VI),
      Assign(VI, UI), Assign(UI, T),
      Local("Binding", "t", Index(VI, "k")),
      Assign(Index(VI, "k"), Index(VJ, "k")), Assign(Index(VJ, "k"), T) }

\* swaps of two fields, and of the results of calls
FieldStmts ==
    { Local("Binding", "t", AX), Assign(AX, AY), Assign(AY, T), Assign(AY, AX),
      AssignOp("BitXor", AX, AY), AssignOp("BitXor", AY, AX),
      Local("Binding", "t", Call("f")), Assign(Call("f"), B), Assign(B, Call("f")) }

\* xor swaps
XorStmts ==
    { AssignOp("BitXor", A, B), AssignOp("BitXor", B, A), AssignOp("BitXor", A, A),
      AssignOp("Add", A, B), AssignOp("BitXor", VI, VJ), AssignOp("BitXor", VJ, VI),
      Assign(A, B), Local("Binding", "t", A), ExprStmt(Call("f")) }

\* assignments and declarations that undo each other
NearStmts ==
    { Assign(A, B), Assign(B, A), Local("Binding", "a", B), Local("Binding", "b", A),
      Local("Tuple", "a", B), Local("BindingSub", "b", A),
      Assign(VI, VJ), Assign(VJ, VI), ExprStmt(Call("f")) }

Families == {TempStmts, IndexStmts, FieldStmts, XorStmts, NearStmts}

\* two swaps back to back, over a, b and over c, d
PairStmts ==
    { Assign(A, B), Assign(B, A), Local("Binding", "a", B),
      Assign(C, D), Assign(D, C), Local("Binding", "d", C) }

\* a swap of two elements after an assignment that the declaration undoes
DegradeStmts ==
    { Local("Binding", "t", VI), Assign(VI, VJ), Assign(VJ, T), Assign(VI, T),
      AssignOp("BitXor", VI, VJ), AssignOp("BitXor", VJ, VI) }

LongFamilies == {PairStmts, DegradeStmts}

RECURSIVE SeqsUpTo(_, _)
SeqsUpTo(S, n) ==
    IF n = 0 THEN {<<>>}
    ELSE LET shorter == SeqsUpTo(S, n - 1)
         IN  shorter \cup {Append(s, x) : s \in {q \in shorter : Len(q) = n - 1}, x \in S}

Start(b, c) ==
    /\ block = b
    /\ in_const = c
    /\ pc = "manual"
    /\ w = 1
    /\ findings = <<>>
    /\ evaluated = {}
    /\ stdOrCore = "unasked"
    /\ tyLog = {}
    /\ ctxtLog = {}
    /\ hirLog = {}

Init == \E F \in Families : \E b \in SeqsUpTo(F, MaxLen) : \E c \in BOOLEAN : Start(b, c)

Spec == Init /\ [][Next]_vars

\* the same pass over longer blocks of fewer kinds of statement
InitLong ==
    \E F \in LongFamilies : \E b \in SeqsUpTo(F, MaxPairLen) : \E c \in BOOLEAN : Start(b, c)

SpecLong == InitLong /\ [][Next]_vars

-----------------------------------------------------------------------------
(* What the claims speak of, read off the block and the emitted diagnostics *)

Fs == 1..Len(findings)
By(d) == {k \in Fs : findings[k].by = d}
At(d, i) == {k \in Fs : findings[k].by = d /\ findings[k].lo = i}
Windows(width) == 1..(Len(block) - width + 1)

IsAssign(s) == s.kind = "Semi" /\ s.ek = "Assign"
IsXorAssign(s) == s.kind = "Semi" /\ s.ek = "AssignOp" /\ s.op = "BitXor"
\* `let ident = init;`
IsLetIdent(s) == s.kind = "Local" /\ s.hasInit /\ s.pat = "Binding"
\* `let ident = init;` or `let ident @ sub = init;`
IsLetBinding(s) == s.kind = "Local" /\ s.hasInit /\ s.pat \in {"Binding", "BindingSub"}

\* statements i..i+2 are `let t = init; lhs1 = rhs1; lhs2 = t;` with
\* init ~ lhs1 and rhs1 ~ lhs2
TempShape(i) ==
    /\ i >= 1 /\ i + 2 <= Len(block)
    /\ IsLetIdent(block[i])
    /\ IsAssign(block[i + 1])
    /\ IsAssign(block[i + 2])
    /\ block[i + 2].rhs = Path(block[i].ident)
    /\ eq_expr_value(block[i].rhs, block[i + 1].lhs)
    /\ eq_expr_value(block[i + 1].rhs, block[i + 2].lhs)

\* statements i..i+2 are `lhs0 ^= rhs0; lhs1 ^= rhs1; lhs2 ^= rhs2;` with
\* lhs0 ~ rhs1, lhs2 ~ rhs1, lhs1 ~ rhs0, lhs1 ~ rhs2
XorShape(i) ==
    /\ i >= 1 /\ i + 2 <= Len(block)
    /\ \A k \in i..(i + 2) : IsXorAssign(block[k])
    /\ eq_expr_value(block[i].lhs, block[i + 1].rhs)
    /\ eq_expr_value(block[i + 2].lhs, block[i + 1].rhs)
    /\ eq_expr_value(block[i + 1].lhs, block[i].rhs)
    /\ eq_expr_value(block[i + 1].lhs, block[i + 2].rhs)

\* the target of statement s (an assigned place or a freshly bound name) is
\* what `value` reads
TargetIs(s, value) ==
    IF IsAssign(s) THEN eq_expr_value(s.lhs, value) ELSE value = Path(s.ident)

\* statements i, i+1 are each `target = value` or `let target = value`, and
\* each one's target is the other's value
NearShape(i) ==
    /\ i >= 1 /\ i + 1 <= Len(block)
    /\ IsAssign(block[i]) \/ IsLetBinding(block[i])
    /\ IsAssign(block[i + 1]) \/ IsLetBinding(block[i + 1])
    /\ TargetIs(block[i], block[i + 1].rhs)
    /\ TargetIs(block[i + 1], block[i].rhs)

\* a collaborator turned window i of the near-swap detector down: two hygiene
\* contexts, a snippet missing, or std_or_core yielding nothing
NearRefused(i) ==
    \/ <<i, FALSE>> \in ctxtLog
    \/ <<i, "lhs_none">> \in hirLog
    \/ <<i, "rhs_none">> \in hirLog
    \/ stdOrCore = "None"

\* both places index one container of a sequence type
IndexCase(e1, e2) ==
    /\ TopKind(e1) = "Index" /\ TopKind(e2) = "Index"
    /\ eq_expr_value(Base(e1), Base(e2))
    /\ \E p \in tyLog : p[1] = Base(e1) /\ p[2] \in {"Slice", "Array", "Vec", "VecDeque"}

\* window i of detector d produced nothing (form "none"), or exactly one
\* machine-applicable MANUAL_SWAP diagnostic of the form, about e1 and e2
OutcomeIs(d, i, form, e1, e2) ==
    IF form = "none" THEN At(d, i) = {}
    ELSE /\ Cardinality(At(d, i)) = 1
         /\ \A k \in At(d, i) :
               /\ findings[k].lint = "MANUAL_SWAP"
               /\ findings[k].form = form
               /\ findings[k].app = "MachineApplicable"
               /\ findings[k].hi = i + 2
               /\ findings[k].e1 = e1 /\ findings[k].e2 = e2

\* the decision as the claims state it
DecisionStated(e1, e2) ==
    IF can_mut_borrow_both(e1, e2) THEN "mem_swap"
    ELSE IF IndexCase(e1, e2) THEN "slice_swap"
    ELSE "none"

\* the decision with the reference form needing std_or_core
DecisionWithStd(e1, e2) ==
    IF can_mut_borrow_both(e1, e2)
    THEN IF stdOrCore = "Some" THEN "mem_swap" ELSE "none"
    ELSE IF IndexCase(e1, e2) THEN "slice_swap"
    ELSE "none"

-----------------------------------------------------------------------------
\* C1: every diagnostic of the temp-variable detector covers three consecutive
\* statements `let t = init; lhs1 = rhs1; lhs2 = t;` of the block with
\* init ~ lhs1 and rhs1 ~ lhs2, reports lhs1 and lhs2, and is emitted only
\* outside a constant context.
C1_TempFindingHasShape ==
    \A k \in By("manual") :
        /\ ~in_const
        /\ TempShape(findings[k].lo)
        /\ findings[k].hi = findings[k].lo + 2
        /\ findings[k].lint = "MANUAL_SWAP"
        /\ findings[k].e1 = block[findings[k].lo + 1].lhs
        /\ findings[k].e2 = block[findings[k].lo + 2].lhs

C1_Witness == pc = "done" /\ By("manual") # {}

\* C2 as stated: a matched temp-variable window yields exactly one
\* reference-form diagnostic when the two slots can be borrowed mutably
\* together, else exactly one index-form diagnostic when both index one
\* container of a sequence type, else nothing.
C2_DecisionAsStated ==
    \A i \in Windows(ManualWidth) :
        (<<"manual", i>> \in evaluated /\ TempShape(i)) =>
            OutcomeIs("manual", i, DecisionStated(block[i + 1].lhs, block[i + 2].lhs),
                      block[i + 1].lhs, block[i + 2].lhs)

\* C2 amended: the same decision, the reference form being emitted only when
\* std_or_core yields a path (nothing is emitted for such a window otherwise).
C2_DecisionGivenStd ==
    \A i \in Windows(ManualWidth) :
        (<<"manual", i>> \in evaluated /\ TempShape(i)) =>
            OutcomeIs("manual", i, DecisionWithStd(block[i + 1].lhs, block[i + 2].lhs),
                      block[i + 1].lhs, block[i + 2].lhs)

C2_Witness ==
    /\ pc = "done"
    /\ \E i \in Windows(ManualWidth) :
          /\ TempShape(i)
          /\ ~can_mut_borrow_both(block[i + 1].lhs, block[i + 2].lhs)
          /\ \E k \in At("manual", i) : findings[k].form = "slice_swap"

\* C3: a block in a constant context gets no MANUAL_SWAP diagnostic.
C3_NoManualSwapInConstant ==
    in_const => \A k \in Fs : findings[k].lint # "MANUAL_SWAP"

\* C4 as stated, std_or_core not failing: a matched XOR window yields exactly
\* one reference-form diagnostic, whether or not its two operands can be
\* borrowed together.
C4_XorAlwaysReference ==
    \A i \in Windows(XorWidth) :
        (<<"xor", i>> \in evaluated /\ XorShape(i) /\ stdOrCore # "None") =>
            OutcomeIs("xor", i, "mem_swap", block[i].lhs, block[i].rhs)

\* C4 amended: a matched XOR window is decided like a temp-variable one, on
\* lhs0 and rhs0: the reference form when they can be borrowed together and
\* std_or_core yields a path, else the index form when both index one
\* container of a sequence type, else nothing.
C4_XorDecided ==
    \A i \in Windows(XorWidth) :
        (<<"xor", i>> \in evaluated /\ XorShape(i)) =>
            OutcomeIs("xor", i, DecisionWithStd(block[i].lhs, block[i].rhs),
                      block[i].lhs, block[i].rhs)

C4_Witness ==
    /\ pc = "done"
    /\ \E i \in Windows(XorWidth) :
          /\ XorShape(i)
          /\ \E k \in At("xor", i) : findings[k].form = "slice_swap"

\* every near-swap diagnostic is ALMOST_SWAPPED and MaybeIncorrect
NearFindingsAreHints ==
    \A k \in By("suspicious") :
        /\ findings[k].lint = "ALMOST_SWAPPED"
        /\ findings[k].app = "MaybeIncorrect"

\* an evaluated matching near-swap window that no collaborator turned down
\* yields exactly one diagnostic, whatever can_mut_borrow_both says of its
\* targets
NearEmittedWhateverAliasing ==
    \A i \in Windows(SuspiciousWidth) :
        (<<"suspicious", i>> \in evaluated /\ NearShape(i) /\ ~NearRefused(i))
            => Cardinality(At("suspicious", i)) = 1

IsABBA == block = <<Assign(A, B), Assign(B, A)>>

OneAlmostSwapped ==
    /\ Len(findings) = 1
    /\ findings[1].lint = "ALMOST_SWAPPED"
    /\ findings[1].app = "MaybeIncorrect"
    /\ findings[1].lo = 1 /\ findings[1].hi = 2

\* C5 as stated: near-swap diagnostics are ALMOST_SWAPPED hints, emitted
\* whatever the aliasing, and the scan of `a = b; b = a;` ends with exactly
\* one of them.
C5_NearSwapAsStated ==
    /\ NearFindingsAreHints
    /\ NearEmittedWhateverAliasing
    /\ (IsABBA /\ pc = "done") => OneAlmostSwapped

\* C5 amended: the same, the scan of `a = b; b = a;` ending with exactly one
\* diagnostic when the two statements share a hygiene context, Sugg::hir_opt
\* renders both operands and std_or_core yields a path.
C5_NearSwapGivenAnswers ==
    /\ NearFindingsAreHints
    /\ NearEmittedWhateverAliasing
    /\ (IsABBA /\ pc = "done" /\ ~NearRefused(1)) => OneAlmostSwapped

C5_Witness ==
    /\ pc = "done"
    /\ \E k \in By("suspicious") : ~can_mut_borrow_both(findings[k].e1, findings[k].e2)

\* C6 as stated: a diagnostic carries the `mem::replace` note exactly when it
\* does not come from an XOR window.
C6_NoteUnlessXor ==
    \A k \in Fs : findings[k].note <=> findings[k].by # "xor"

\* C6 amended: a diagnostic carries the note exactly when it is a reference-form
\* one that does not come from an XOR window; index-form diagnostics carry none,
\* whichever detector found them.
C6_NoteOnReferenceFormUnlessXor ==
    \A k \in Fs :
        findings[k].note <=> (findings[k].by # "xor" /\ findings[k].form = "mem_swap")

C6_Witness ==
    /\ pc = "done"
    /\ \E k \in By("manual") : findings[k].form = "slice_swap" /\ ~findings[k].note

\* the names a statement mentions
ExprNames(e) == {e.segs[k] : k \in 1..Len(e.segs)} \cup {e.proj[k].key : k \in 1..Len(e.proj)}
StmtNames(s) == (ExprNames(s.lhs) \cup ExprNames(s.rhs) \cup {s.ident}) \ {""}

\* four statements, two near-swap pairs, neither mentioning a name of the other
TwoPairs ==
    /\ Len(block) = 4
    /\ NearShape(1)
    /\ NearShape(3)
    /\ (StmtNames(block[1]) \cup StmtNames(block[2]))
          \cap (StmtNames(block[3]) \cup StmtNames(block[4])) = {}

TwoFindingsApart ==
    /\ Len(findings) = 2
    /\ findings[1].lo = 1 /\ findings[1].hi = 2
    /\ findings[2].lo = 3 /\ findings[2].hi = 4
    /\ At("suspicious", 2) = {}

\* C7 as stated: the scan of two back-to-back swap pairs ends with exactly two
\* diagnostics, over statements 1..2 and 3..4, and none for the middle window.
C7_TwoPairsAsStated ==
    (TwoPairs /\ pc = "done") => TwoFindingsApart

\* C7 amended: the same when, for each pair, the two statements share a hygiene
\* context and Sugg::hir_opt renders both operands, and std_or_core yields a
\* path.
C7_TwoPairsGivenAnswers ==
    (TwoPairs /\ pc = "done" /\ ~NearRefused(1) /\ ~NearRefused(3)) => TwoFindingsApart

C7_Witness ==
    TwoPairs /\ pc = "done" /\ ~NearRefused(1) /\ ~NearRefused(3) /\ Len(findings) = 2

\* every window of the detector was evaluated
AllEvaluated(d, width) == \A i \in Windows(width) : <<d, i>> \in evaluated

\* a window whose only query is the container's type gets its index-form
\* diagnostic, whatever std_or_core answers
IndexFindingsKept ==
    /\ \A i \in Windows(ManualWidth) :
          (/\ <<"manual", i>> \in evaluated /\ TempShape(i)
           /\ ~can_mut_borrow_both(block[i + 1].lhs, block[i + 2].lhs)
           /\ IndexCase(block[i + 1].lhs, block[i + 2].lhs))
          => \E k \in At("manual", i) : findings[k].form = "slice_swap"
    /\ \A i \in Windows(XorWidth) :
          (/\ <<"xor", i>> \in evaluated /\ XorShape(i)
           /\ ~can_mut_borrow_both(block[i].lhs, block[i].rhs)
           /\ IndexCase(block[i].lhs, block[i].rhs))
          => \E k \in At("xor", i) : findings[k].form = "slice_swap"

\* C8 as stated: at the end of the scan every window has been evaluated by
\* every detector (the temp-variable one outside constant contexts), and the
\* index-form diagnostics are there whatever std_or_core answered.
C8_NeverAbortedAsStated ==
    pc = "done" =>
        /\ ~in_const => AllEvaluated("manual", ManualWidth)
        /\ AllEvaluated("suspicious", SuspiciousWidth)
        /\ AllEvaluated("xor", XorWidth)
        /\ IndexFindingsKept

\* C8 amended: the temp-variable and XOR detectors evaluate every window and
\* the index-form diagnostics are there whatever std_or_core answered; the
\* near-swap detector evaluates every window unless std_or_core yields nothing,
\* in which case it stops at its first window that matched (operands, hygiene
\* context and snippets) and leaves the later ones unevaluated.
C8_OnlyNearSwapStops ==
    pc = "done" =>
        /\ ~in_const => AllEvaluated("manual", ManualWidth)
        /\ AllEvaluated("xor", XorWidth)
        /\ IndexFindingsKept
        /\ \A i \in Windows(SuspiciousWidth) :
              <<"suspicious", i>> \notin evaluated =>
                  /\ stdOrCore = "None"
                  /\ \E j \in 1..(i - 1) :
                        /\ <<"suspicious", j>> \in evaluated
                        /\ NearShape(j)
                        /\ <<j, TRUE>> \in ctxtLog /\ <<j, "both">> \in hirLog
                        /\ \A m \in Windows(SuspiciousWidth) :
                              <<"suspicious", m>> \in evaluated <=> m <= j

C8_Witness ==
    /\ pc = "done"
    /\ stdOrCore = "None"
    /\ \E i \in Windows(SuspiciousWidth) : <<"suspicious", i>> \notin evaluated
    /\ \E k \in By("manual") : findings[k].form = "slice_swap"

\* C9 as stated: a near-swap diagnostic covers two adjacent statements of one
\* hygiene context, the first an assignment or a single-identifier declaration
\* with initializer, the second an assignment, the first's target being the
\* second's value and the second's target equivalent to the first's value.
C9_SecondIsAssignment ==
    \A k \in By("suspicious") :
        LET i == findings[k].lo IN
        /\ findings[k].hi = i + 1
        /\ NearShape(i)
        /\ <<i, TRUE>> \in ctxtLog
        /\ IsAssign(block[i + 1])
        /\ eq_expr_value(block[i + 1].lhs, block[i].rhs)

\* C9 amended: the second statement too is an assignment or a declaration
\* binding an identifier with an initializer, its target then being the bound
\* identifier, which the first statement's value names as a bare path.
C9_EitherMayBeDeclaration ==
    \A k \in By("suspicious") :
        LET i == findings[k].lo IN
        /\ findings[k].hi = i + 1
        /\ NearShape(i)
        /\ <<i, TRUE>> \in ctxtLog

C9_Witness ==
    /\ pc = "done"
    /\ \E k \in By("suspicious") : block[findings[k].lo + 1].kind = "Local"

AtLeast0(n) == IF n < 0 THEN 0 ELSE n

====
